---- MODULE Spec2Model ----
(***************************************************************************)
(* Request-dispatch core of the ThingsBoard MCP server                     *)
(* (src/src/thingsboard.py): the process-wide auth_token, get_auth_token,  *)
(* make_thingsboard_request and the resource operations that forward to    *)
(* it.  Every invocation of make_thingsboard_request is a coroutine on one *)
(* asyncio event loop: it runs without interruption between two awaits, so *)
(* one action models the code from one await to the next.  get_auth_token  *)
(* uses the blocking httpx.Client and is therefore part of the action that *)
(* calls it.                                                               *)
(***************************************************************************)
EXTENDS Naturals, Sequences, FiniteSets, TLC

\* ---------------------------------------------------------------- bounds
NumTasks == 2
MaxCalls == 2

\* ------------------------------------------------------------- constants
\* auth_token: Optional[str] = None; a falsy token is "not held".
NoToken == 0

None == "None"

Tasks == 1..NumTasks

\* the request specs the callers pass: method, params, json_data.  The
\* methods are the four supported ones, an unsupported one, and the
\* lower-case spelling many resource operations use.
RequestSpecs ==
    {<<"GET", "{'keys': 'k'}", None>>,
     <<"POST", None, "{'name': 'n'}">>,
     <<"PUT", "{'keys': 'k'}", "{'name': 'n'}">>,
     <<"DELETE", "{'keys': 'k'}", None>>,
     <<"PATCH", None, "{'name': 'n'}">>,
     <<"post", None, None>>}
Endpoints == {"device/abc"}
AlarmIds == {"a1"}
Bodies == {"{'id': 'abc'}", "{'id': 'xyz'}"}
\* the name argument of update_device: not given, or a new name
Names == {None, "n2"}

\* what the platform can answer to one resource request
\*   ok           2xx with a JSON body
\*   nocontent    204
\*   unauthorized 401
\*   status       any other non-2xx status
\*   connect      connection-level failure (DNS, refusal, timeout)
\*   undecodable  2xx whose body is not JSON
Answers == {"ok", "nocontent", "unauthorized", "status", "connect", "undecodable"}

\* an answer together with its decoded body, which only "ok" has
AnswersWithBody ==
    {<<"ok", b>> : b \in Bodies} \cup {<<a, None>> : a \in Answers \ {"ok"}}

VARIABLES
    phase,       \* "load": module imported; "serving": requests accepted; "exited"
    auth_token,  \* the global auth_token (NoToken = None)
    issued,      \* number of tokens the platform has handed out so far
    pc,          \* per task: "idle", "await1", "await2"
    args,        \* per task: the arguments of the running invocation
    req,         \* per task: the last resource request it put on the wire
    events,      \* per task: what the invocation did so far, in order
    resp,        \* per task: the answers it received so far, in order
    returned,    \* the invocation that returned last: arguments, last request,
                 \* value returned (or exception raised), events and answers
    calls        \* number of invocations started

vars == <<phase, auth_token, issued, pc, args, req, events, resp, returned, calls>>

NoArgs == [op |-> None, endpoint |-> None, method |-> None, params |-> None,
           json_data |-> None, permission_granted |-> FALSE, token0 |-> NoToken,
           name |-> None]
NoReq == [method |-> None, endpoint |-> None, params |-> None, json |-> None,
          token |-> NoToken]
NoResult == [kind |-> None]

\* ------------------------------------------------------- pure functions
\* str.lower() on the method strings
Lower(m) ==
    CASE m = "GET" -> "get"
      [] m = "POST" -> "post"
      [] m = "PUT" -> "put"
      [] m = "DELETE" -> "delete"
      [] m = "PATCH" -> "patch"
      [] OTHER -> m

\* a description table without its DELETE entry
operation_description_noDelete(method) ==
    CASE method = "POST" -> "create or add new data"
      [] method = "PUT" -> "update existing data"
      [] OTHER -> "perform a " \o method \o " operation"

\* operation_descriptions.get(method, f"perform a {method} operation")
operation_description(method) ==
    CASE method = "POST" -> "create or add new data"
      [] method = "PUT" -> "update existing data"
      [] method = "DELETE" -> "permanently remove data"
      [] OTHER -> "perform a " \o method \o " operation"

\* data_info: empty unless json_data is truthy
data_info(json_data) ==
    IF json_data # None /\ json_data # "{}" THEN ", data: " \o json_data ELSE ""

\* a permission request that forgets to echo the query parameters
PermissionRequest_noParams(endpoint, method, params, json_data) ==
    [kind |-> "permission",
     requires_permission |-> TRUE,
     method |-> method,
     endpoint |-> endpoint,
     params |-> None,
     json_data |-> json_data,
     message |-> "This operation will " \o operation_description(method)
                 \o " in ThingsBoard (endpoint: " \o endpoint
                 \o data_info(json_data) \o "). Do you want to proceed?"]

\* a permission request that numbers the requests it hands out
PermissionRequest_numbered(endpoint, method, params, json_data) ==
    [kind |-> "permission",
     requires_permission |-> TRUE,
     method |-> method,
     endpoint |-> endpoint,
     params |-> params,
     json_data |-> json_data,
     number |-> calls,
     message |-> "This operation will " \o operation_description(method)
                 \o " in ThingsBoard (endpoint: " \o endpoint
                 \o data_info(json_data) \o "). Do you want to proceed?"]

\* the permission request returned instead of executing the operation
PermissionRequest(endpoint, method, params, json_data) ==
    [kind |-> "permission",
     requires_permission |-> TRUE,
     method |-> method,
     endpoint |-> endpoint,
     params |-> params,
     json_data |-> json_data,
     message |-> "This operation will " \o operation_description(method)
                 \o " in ThingsBoard (endpoint: " \o endpoint
                 \o data_info(json_data) \o "). Do you want to proceed?"]

\* str(e) for the exceptions httpx raises on an answer
Details(answer) ==
    CASE answer = "unauthorized" -> "HTTPStatusError: 401"
      [] answer = "status" -> "HTTPStatusError: 500"
      [] answer = "connect" -> "ConnectError"
      [] answer = "undecodable" -> "JSONDecodeError"
      [] OTHER -> ""

\* the exception class an answer makes httpx raise
Exc(answer) ==
    CASE answer = "unauthorized" -> "HTTPStatusError"
      [] answer = "status" -> "HTTPStatusError"
      [] answer = "connect" -> "ConnectError"
      [] answer = "undecodable" -> "JSONDecodeError"
      [] OTHER -> None

ErrorRecord(verb, answer) ==
    [kind |-> "error",
     error |-> "Unable to " \o verb \o " data from ThingsBoard",
     details |-> Details(answer)]

Unsupported(method) ==
    [kind |-> "error", error |-> "Unsupported HTTP method: " \o method]

Raised(exc) == [kind |-> "raised", exc |-> exc]

\* a 2xx handler without the 204 test: the empty body is decoded like any
\* other
Success_decode204(answer, body) == [kind |-> "body", body |-> body]

\* a 2xx handler that wraps the decoded body instead of passing it through
Success_wrapped(answer, body) ==
    IF answer = "nocontent" THEN [kind |-> "success", success |-> TRUE]
    ELSE [kind |-> "body", body |-> "{'data': " \o body \o "}"]

\* the value produced by a 2xx answer
Success(answer, body) ==
    IF answer = "nocontent" THEN [kind |-> "success", success |-> TRUE]
    ELSE [kind |-> "body", body |-> body]

\* the branch of make_thingsboard_request that talks to the platform
IsGetBranch(method) == method = "GET"
\* a method switch whose PUT arm is missing
IsSupported_noPut(method) == method \in {"POST", "DELETE"}
IsSupported(method) == method \in {"POST", "PUT", "DELETE"}

\* faulty gates: none at all; one that knows only the three described
\* methods; one that also stops reads
NeedsPermission_never(method, permission_granted) == FALSE
NeedsPermission_described(method, permission_granted) ==
    method \in {"POST", "PUT", "DELETE"} /\ ~permission_granted
NeedsPermission_always(method, permission_granted) == ~permission_granted

\* the permission gate of make_thingsboard_request
NeedsPermission(method, permission_granted) ==
    ~IsGetBranch(method) /\ ~permission_granted

\* a handler that refreshes and retries on every HTTPStatusError
IsUnauthorized_anyStatus(answer) == answer \in {"unauthorized", "status"}

\* a handler that also refreshes and retries after a connection failure
IsUnauthorized_orConnect(answer) == answer \in {"unauthorized", "connect"}

\* e.response.status_code == 401
IsUnauthorized(answer) == answer = "unauthorized"

\* a dispatcher that logs in on every call
NeedsLogin_always(token) == TRUE

\* `if not auth_token`: the lazy login is taken only when no token is held
NeedsLogin(token) == token = NoToken

\* an error message that keeps the method as passed, without .lower()
Verb_asPassed(method) == method

\* the error message verb of the branch: hard-coded "get" in the GET branch
Verb(method) == IF IsGetBranch(method) THEN "get" ELSE Lower(method)

\* a login whose failure clears the token
AfterLogin_clearOnFail(token, ok, new) == IF ok THEN new ELSE NoToken

\* a login whose token is used for the request but never stored
AfterLogin_notStored(token, ok, new) == token

\* a login that stores its token only when none is held
AfterLogin_firstWriterWins(token, ok, new) ==
    IF ok /\ token = NoToken THEN new ELSE token

\* `auth_token = get_auth_token(...)`: the assignment takes place only when
\* get_auth_token returns; when it raises, auth_token keeps its value
AfterLogin(token, ok, new) == IF ok THEN new ELSE token

\* str() of a dict after `data["name"] = name`, for a dict without that key
WithName(dict, name) ==
    SubSeq(dict, 1, Len(dict) - 1) \o ", 'name': '" \o name \o "'}"

\* update_device: `if name: data["name"] = name`
Updated(dict, name) == IF name # None THEN WithName(dict, name) ELSE dict

\* the dict a returned value is, as str() shows it
DictOf(res) == IF res.kind = "body" THEN res.body ELSE "{'success': True}"

\* `"error" in current_device`
HasErrorKey(res) == res.kind = "error"

TypeOK ==
    /\ phase \in {"load", "serving", "exited"}
    /\ auth_token \in 0..issued
    /\ issued \in Nat
    /\ pc \in [Tasks -> {"idle", "await1", "await2"}]
    /\ calls \in 0..MaxCalls

\* what `returned` holds for an invocation that has returned; `again` tells
\* that it was given a permission request for the same endpoint, method,
\* params and json_data as the invocation that returned just before it
Ret(a, r, res, ev, rs) ==
    [args |-> a, req |-> r, result |-> res, events |-> ev, resp |-> rs,
     again |-> /\ res.kind = "permission"
               /\ returned.result.kind = "permission"
               /\ a.endpoint = returned.args.endpoint
               /\ a.method = returned.args.method
               /\ a.params = returned.args.params
               /\ a.json_data = returned.args.json_data]

Init ==
    /\ phase = "load"
    /\ auth_token = NoToken
    /\ issued = 0
    /\ pc = [t \in Tasks |-> "idle"]
    /\ args = [t \in Tasks |-> NoArgs]
    /\ req = [t \in Tasks |-> NoReq]
    /\ events = [t \in Tasks |-> <<>>]
    /\ resp = [t \in Tasks |-> <<>>]
    /\ returned = Ret(NoArgs, NoReq, NoResult, <<>>, <<>>)
    /\ calls = 0

\* __main__: the login performed before the server starts serving
Main ==
    /\ phase = "load"
    /\ \E ok \in BOOLEAN :
         IF ok
         THEN /\ issued' = issued + 1
              /\ auth_token' = issued + 1
              /\ phase' = "serving"
         ELSE /\ phase' = "exited"
              /\ UNCHANGED <<issued, auth_token>>
    /\ UNCHANGED <<pc, args, req, events, resp, returned, calls>>

\* the request a branch puts on the wire: client.get sends no body, and
\* client.delete is called without json
WireRequest(endpoint, method, params, json_data, token) ==
    [method |-> IF IsGetBranch(method) THEN "GET" ELSE method,
     endpoint |-> endpoint,
     params |-> params,
     json |-> IF method \in {"POST", "PUT"} THEN json_data ELSE None,
     token |-> token]

\* make_thingsboard_request from its call to its first await (or its return)
Begin(t, op, endpoint, method, params, json_data, permission_granted, name) ==
    LET a == [op |-> op, endpoint |-> endpoint, method |-> method,
              params |-> params, json_data |-> json_data,
              permission_granted |-> permission_granted,
              token0 |-> auth_token, name |-> name]
        need == NeedsLogin(auth_token)
        ev0 == IF need THEN <<"lazy_ok">> ELSE <<>>
    IN
    /\ pc[t] = "idle"
    /\ \A u \in Tasks : u < t => pc[u] # "idle"   \* the first free task runs it
    /\ phase # "exited"
    /\ calls < MaxCalls
    /\ phase' = "serving"
    /\ calls' = calls + 1
    /\ IF NeedsPermission(method, permission_granted)
       THEN \* return the permission request
            /\ returned' = Ret(a, NoReq,
                               PermissionRequest(endpoint, method, params, json_data),
                               <<>>, <<>>)
            /\ UNCHANGED <<auth_token, issued, pc, args, req, events, resp>>
       ELSE \E ok \in BOOLEAN :
            /\ (~need => ok)
            /\ IF need /\ ~ok
               THEN \* get_auth_token raises ValueError outside any try
                    /\ returned' = Ret(a, NoReq, Raised("ValueError"),
                                       <<"lazy_fail">>, <<>>)
                    /\ auth_token' = AfterLogin(auth_token, FALSE, issued + 1)
                    /\ UNCHANGED <<issued, pc, args, req, events, resp>>
               ELSE /\ auth_token' = IF need
                                     THEN AfterLogin(auth_token, TRUE, issued + 1)
                                     ELSE auth_token
                    /\ issued' = IF need THEN issued + 1 ELSE issued
                    /\ IF ~IsGetBranch(method) /\ ~IsSupported(method)
                       THEN /\ returned' = Ret(a, NoReq, Unsupported(method), ev0, <<>>)
                            /\ UNCHANGED <<pc, args, req, events, resp>>
                       ELSE /\ pc' = [pc EXCEPT ![t] = "await1"]
                            /\ args' = [args EXCEPT ![t] = a]
                            /\ req' = [req EXCEPT ![t] =
                                 WireRequest(endpoint, method, params, json_data,
                                             auth_token')]
                            /\ events' = [events EXCEPT ![t] = ev0 \o <<"send">>]
                            /\ resp' = [resp EXCEPT ![t] = <<>>]
                            /\ UNCHANGED returned

\* the invocation of task t returns (or raises): the task is free again
Return(t, res, ev, rs) ==
    /\ returned' = Ret(args[t], req[t], res, ev, rs)
    /\ pc' = [pc EXCEPT ![t] = "idle"]
    /\ args' = [args EXCEPT ![t] = NoArgs]
    /\ req' = [req EXCEPT ![t] = NoReq]
    /\ events' = [events EXCEPT ![t] = <<>>]
    /\ resp' = [resp EXCEPT ![t] = <<>>]

\* the operations that read an entity and then post it back
UpdateOps == {"update_device"}

\* the invocation of task t returns res to the operation that awaits it.
\* update_device goes on, without an await in between, to its second
\* invocation, a POST of the updated entity with the default
\* permission_granted=False; every other operation returns res as it is, and
\* so does update_device when res is an error record or an exception.
Finish(t, res, ev, rs) ==
    IF /\ args[t].op \in UpdateOps /\ args[t].method = "GET"
       /\ res.kind # "raised" /\ ~HasErrorKey(res)
    THEN LET data == Updated(DictOf(res), args[t].name)
             a2 == [op |-> args[t].op, endpoint |-> "device", method |-> "POST",
                    params |-> None, json_data |-> data,
                    permission_granted |-> FALSE, token0 |-> auth_token,
                    name |-> args[t].name]
         IN IF NeedsPermission("POST", FALSE)
            THEN /\ returned' = Ret(a2, NoReq,
                                  PermissionRequest("device", "POST", None, data),
                                  <<>>, <<>>)
                 /\ pc' = [pc EXCEPT ![t] = "idle"]
                 /\ args' = [args EXCEPT ![t] = NoArgs]
                 /\ req' = [req EXCEPT ![t] = NoReq]
                 /\ events' = [events EXCEPT ![t] = <<>>]
                 /\ resp' = [resp EXCEPT ![t] = <<>>]
            ELSE /\ pc' = [pc EXCEPT ![t] = "await1"]
                 /\ args' = [args EXCEPT ![t] = a2]
                 /\ req' = [req EXCEPT ![t] =
                      WireRequest("device", "POST", None, data, auth_token)]
                 /\ events' = [events EXCEPT ![t] = <<"send">>]
                 /\ resp' = [resp EXCEPT ![t] = <<>>]
                 /\ UNCHANGED returned
    ELSE Return(t, res, ev, rs)

\* what the first answer, when it is not a 401, makes the invocation return
FirstResult(method, answer, body) ==
    IF answer \in {"ok", "nocontent"}
    THEN Success(answer, body)
    ELSE ErrorRecord(Verb(method), answer)

\* an answer as the invocation sees it
Answer(answer, body) == [answer |-> answer, body |-> body]

\* the first answer arrives: return, or refresh the token and retry
Answer1(t, answer, body) ==
    LET rs == Append(resp[t], Answer(answer, body)) IN
    /\ pc[t] = "await1"
    /\ IF ~IsUnauthorized(answer)
       THEN /\ Finish(t, FirstResult(args[t].method, answer, body),
                      Append(events[t], answer), rs)
            /\ UNCHANGED <<auth_token, issued>>
       ELSE \E ok \in BOOLEAN :
            IF ~ok
            THEN \* get_auth_token raises inside the except clause
                 /\ Return(t, Raised("ValueError"),
                           events[t] \o <<answer, "refresh_fail">>, rs)
                 /\ auth_token' = AfterLogin(auth_token, FALSE, issued + 1)
                 /\ UNCHANGED issued
            ELSE /\ auth_token' = AfterLogin(auth_token, TRUE, issued + 1)
                 /\ issued' = issued + 1
                 /\ req' = [req EXCEPT ![t] = [@ EXCEPT !.token = auth_token']]
                 /\ pc' = [pc EXCEPT ![t] = "await2"]
                 /\ events' = [events EXCEPT ![t] = @ \o <<answer, "refresh_ok", "send">>]
                 /\ resp' = [resp EXCEPT ![t] = rs]
                 /\ UNCHANGED <<args, returned>>
    /\ UNCHANGED <<phase, calls>>

\* a retry whose answer is dropped in favour of the first attempt's error
RetryResult_firstError(method, answer, body) ==
    ErrorRecord(Verb(method), "unauthorized")

\* what the answer to the retry makes the invocation return: the retry runs
\* inside `except httpx.HTTPStatusError`, so nothing it raises is caught
RetryResult(method, answer, body) ==
    IF answer \in {"ok", "nocontent"}
    THEN Success(answer, body)
    ELSE Raised(Exc(answer))

\* a retry that is itself retried, after another refresh, as long as the
\* answer is a 401
Answer2_again(t, answer, body) ==
    /\ pc[t] = "await2"
    /\ IF IsUnauthorized(answer)
       THEN /\ auth_token' = AfterLogin(auth_token, TRUE, issued + 1)
            /\ issued' = issued + 1
            /\ req' = [req EXCEPT ![t] = [@ EXCEPT !.token = auth_token']]
            /\ events' = [events EXCEPT ![t] = @ \o <<answer, "refresh_ok", "send">>]
            /\ resp' = [resp EXCEPT ![t] = Append(@, Answer(answer, body))]
            /\ UNCHANGED <<pc, args, returned>>
       ELSE /\ Finish(t, RetryResult(args[t].method, answer, body),
                      Append(events[t], answer),
                      Append(resp[t], Answer(answer, body)))
            /\ UNCHANGED <<auth_token, issued>>
    /\ UNCHANGED <<phase, calls>>

\* the answer to the retry arrives
Answer2(t, answer, body) ==
    /\ pc[t] = "await2"
    /\ Finish(t, RetryResult(args[t].method, answer, body),
              Append(events[t], answer),
              Append(resp[t], Answer(answer, body)))
    /\ UNCHANGED <<phase, auth_token, issued, calls>>

\* ------------------------------------------------------ entry points
\* a call of the dispatcher with the default permission_granted=False, as
\* every resource operation makes it
make_thingsboard_request(t) ==
    \E e \in Endpoints, s \in RequestSpecs :
        Begin(t, "make_thingsboard_request", e, s[1], s[2], s[3], FALSE, None)

\* an execute_with_permission that forwards without the permission
execute_with_permission_ungranted(t) ==
    \E e \in Endpoints, s \in RequestSpecs :
        Begin(t, "execute_with_permission", e, s[1], s[2], s[3], FALSE, None)

execute_with_permission(t) ==
    \E e \in Endpoints, s \in RequestSpecs :
        Begin(t, "execute_with_permission", e, s[1], s[2], s[3], TRUE, None)

get_alarm_by_id(t) ==
    \E id \in AlarmIds :
        Begin(t, "get_alarm_by_id", "alarm/" \o id, "GET", None, None, FALSE, None)

get_alarm_comments(t) ==
    \E id \in AlarmIds :
        Begin(t, "get_alarm_comments", "alarm/" \o id \o "/comment", "get",
              "{}", None, FALSE, None)

get_entities_by_ids(t) ==
    Begin(t, "get_entities_by_ids", "entities/DEVICE", "get",
          "{'entityIds': 'abc'}", None, FALSE, None)

\* a delete_alarm that grants itself the permission
delete_alarm_granted(t) ==
    \E id \in AlarmIds :
        Begin(t, "delete_alarm", "alarm/" \o id, "DELETE", None, None, TRUE, None)

delete_alarm(t) ==
    \E id \in AlarmIds :
        Begin(t, "delete_alarm", "alarm/" \o id, "DELETE", None, None, FALSE, None)

assign_alarm(t) ==
    \E id \in AlarmIds :
        Begin(t, "assign_alarm", "alarm/" \o id \o "/assign/u1", "post",
              None, None, FALSE, None)

\* update_device: get_device_by_id first; Finish goes on from its result
update_device(t) ==
    \E n \in Names :
        Begin(t, "update_device", "device/abc", "GET", None, None, FALSE, n)

\* the caller approves the permission request it was given last and passes
\* its method, endpoint, params and json_data to execute_with_permission
replay(t) ==
    /\ returned.result.kind = "permission"
    /\ Begin(t, "replay", returned.result.endpoint, returned.result.method,
             returned.result.params, returned.result.json_data, TRUE, None)

Next ==
    \/ Main
    \/ \E t \in Tasks : make_thingsboard_request(t)
    \/ \E t \in Tasks : execute_with_permission(t)
    \/ \E t \in Tasks : get_alarm_by_id(t)
    \/ \E t \in Tasks : get_alarm_comments(t)
    \/ \E t \in Tasks : get_entities_by_ids(t)
    \/ \E t \in Tasks : delete_alarm(t)
    \/ \E t \in Tasks : assign_alarm(t)
    \/ \E t \in Tasks : replay(t)
    \/ \E t \in Tasks, ab \in AnswersWithBody : Answer1(t, ab[1], ab[2])
    \/ \E t \in Tasks, ab \in AnswersWithBody : Answer2(t, ab[1], ab[2])

Spec == Init /\ [][Next]_vars

\* the same server with callers that also use update_device
NextUpdate ==
    \/ Next
    \/ \E t \in Tasks : update_device(t)

SpecUpdate == Init /\ [][NextUpdate]_vars

\* every request that is on the wire is answered in the end
Fairness ==
    \A t \in Tasks :
        /\ WF_vars(\E ab \in AnswersWithBody : Answer1(t, ab[1], ab[2]))
        /\ WF_vars(\E ab \in AnswersWithBody : Answer2(t, ab[1], ab[2]))

\* callers that read an alarm, ask for its deletion and approve it: both
\* branches of the dispatcher, under the assumption that every request is
\* answered
NextAlarm ==
    \/ Main
    \/ \E t \in Tasks : get_alarm_by_id(t)
    \/ \E t \in Tasks : delete_alarm(t)
    \/ \E t \in Tasks : replay(t)
    \/ \E t \in Tasks, ab \in AnswersWithBody : Answer1(t, ab[1], ab[2])
    \/ \E t \in Tasks, ab \in AnswersWithBody : Answer2(t, ab[1], ab[2])

FairSpec == Init /\ [][NextAlarm]_vars /\ Fairness

\* ------------------------------------------------------------ helpers
RECURSIVE Count(_, _)
Count(seq, S) ==
    IF seq = <<>> THEN 0
    ELSE (IF Head(seq) \in S THEN 1 ELSE 0) + Count(Tail(seq), S)

\* of the invocation that returned last: invocations of get_auth_token,
\* resource requests, forced refreshes
Logins == Count(returned.events, {"lazy_ok", "lazy_fail", "refresh_ok", "refresh_fail"})
Sends == Count(returned.events, {"send"})
Refreshes == Count(returned.events, {"refresh_ok", "refresh_fail"})
LoginFailed == Count(returned.events, {"lazy_fail", "refresh_fail"}) > 0

Mutating == {"POST", "PUT", "DELETE"}
HasReturned == returned.result.kind # None
Unconfirmed(a) == a.method # "GET" /\ ~a.permission_granted

\* the first attempt was answered 401, the token was refreshed, and the
\* retry was answered with an answer in S
Retried(S) ==
    /\ HasReturned
    /\ Len(returned.resp) = 2
    /\ returned.resp[1].answer = "unauthorized"
    /\ returned.resp[2].answer \in S

\* ------------------------------------------------------------- claims

\* C1: a POST, PUT or DELETE request is put on the wire only by an
\* invocation made with permission_granted=True, in every state of every
\* interleaving, whatever was returned before.
C1_MutatingOnlyWhenGranted ==
    /\ \A t \in Tasks :
          req[t].method \in Mutating => args[t].permission_granted
    /\ returned.req.method \in Mutating => returned.args.permission_granted

\* a granted DELETE is on the wire after a permission request was returned
C1_Witness ==
    \E t \in Tasks :
        /\ req[t].method = "DELETE" /\ args[t].permission_granted
        /\ returned.result.kind = "permission"

\* C2: an invocation with a non-GET method and permission_granted=False
\* returns in the step that starts it, without a login, without a resource
\* request and without changing auth_token.
C2_UnconfirmedTouchesNothing ==
    [][calls' = calls + 1 =>
          /\ \A t \in Tasks :
                (pc[t] = "idle" /\ pc'[t] # "idle") => ~Unconfirmed(args'[t])
          /\ (pc' = pc /\ Unconfirmed(returned'.args)) =>
                /\ auth_token' = auth_token
                /\ issued' = issued
                /\ returned'.events = <<>>
                /\ returned'.req = NoReq]_vars

\* an unconfirmed DELETE has returned while no token is held
C2_Witness ==
    /\ HasReturned /\ Unconfirmed(returned.args)
    /\ returned.args.method = "DELETE"
    /\ auth_token = NoToken /\ issued = 0
    /\ returned.events = <<>>

\* C3: the permission request returned to an unconfirmed non-GET invocation
\* has requires_permission true and echoes method, endpoint, params and
\* json_data exactly as passed in.
C3_DescriptorEchoesSpec ==
    (HasReturned /\ Unconfirmed(returned.args)) =>
        /\ returned.result.kind = "permission"
        /\ returned.result.requires_permission = TRUE
        /\ returned.result.method = returned.args.method
        /\ returned.result.endpoint = returned.args.endpoint
        /\ returned.result.params = returned.args.params
        /\ returned.result.json_data = returned.args.json_data

\* a permission request that echoes given query parameters and an absent body
C3_Witness ==
    /\ HasReturned /\ Unconfirmed(returned.args)
    /\ returned.args.params # None /\ returned.args.json_data = None
    /\ returned.result.kind = "permission"
    /\ returned.result.params = returned.args.params

\* C4: an invocation whose method is GET never returns a permission
\* request, whatever permission_granted and the token state are; it goes on
\* to the login or the request and ends with a response body, the success
\* marker, or an error (an error record, or the exception of a failed login
\* or retry).
C4_GetNeverGated ==
    (HasReturned /\ returned.args.method = "GET") =>
        /\ returned.result.kind # "permission"
        /\ returned.result.kind \in {"body", "success", "error", "raised"}
        /\ Len(returned.events) > 0

\* an unconfirmed GET issued without a token has returned a response body
C4_Witness ==
    /\ HasReturned /\ returned.args.method = "GET"
    /\ ~returned.args.permission_granted
    /\ returned.args.token0 = NoToken
    /\ returned.result.kind = "body"

\* C5 (as claimed): no read operation ever returns a permission request.
ReadOps == {"get_alarm_by_id", "get_alarm_comments", "get_entities_by_ids"}
C5_ReadsNeverGated ==
    (HasReturned /\ returned.args.op \in ReadOps) =>
        returned.result.kind # "permission"

C7_NeverRaises ==
    HasReturned => returned.result.kind # "raised"

\* C8 (as claimed): 401 then 2xx gives the success of the second attempt
\* after exactly one invocation of get_auth_token.
C8_RetryOneLogin ==
    Retried({"ok", "nocontent"}) =>
        /\ returned.result = Success(returned.resp[2].answer, returned.resp[2].body)
        /\ Logins = 1

\* C8 (amended): 401 then 2xx gives the success of the second attempt after
\* exactly one forced refresh; get_auth_token is invoked once if a token
\* was held when the invocation began and twice (lazy login, then refresh)
\* if none was held.
C8_RetryOneRefresh ==
    Retried({"ok", "nocontent"}) =>
        /\ returned.result = Success(returned.resp[2].answer, returned.resp[2].body)
        /\ Refreshes = 1
        /\ Logins = IF returned.args.token0 = NoToken THEN 2 ELSE 1
        /\ Sends = 2

\* a confirmed DELETE, begun without a token, was answered 401 and then 2xx
C8_Witness ==
    /\ Retried({"ok"})
    /\ returned.args.method = "DELETE" /\ returned.args.permission_granted
    /\ returned.args.token0 = NoToken
    /\ returned.result.kind = "body"

\* C9 (as claimed): 401 followed by a failed retry gives an error record
\* after exactly two resource requests.
C9_FailedRetryIsErrorRecord ==
    Retried({"unauthorized", "status", "connect"}) =>
        /\ returned.result.kind = "error"
        /\ Sends = 2

\* C10 (as claimed): a failed login, lazy or forced, gives an error record,
\* is not retried and is followed by no resource request.
C10_FailedLoginIsErrorRecord ==
    (HasReturned /\ LoginFailed) =>
        /\ returned.result.kind = "error"
        /\ Count(returned.events, {"lazy_fail", "refresh_fail"}) = 1
        /\ returned.events[Len(returned.events)] \in {"lazy_fail", "refresh_fail"}

\* the answer that ended the invocation that returned last
LastAnswer == returned.resp[Len(returned.resp)]
Ended(S) == HasReturned /\ Len(returned.resp) > 0 /\ LastAnswer.answer \in S

\* C11 (as claimed): a confirmed call with a method outside GET, POST, PUT,
\* DELETE returns the unsupported-method error without a login and without
\* a resource request, also when no token is held.
C11_UnsupportedNoNetwork ==
    (HasReturned /\ returned.args.permission_granted
     /\ returned.args.method \notin {"GET", "POST", "PUT", "DELETE"})
    => /\ returned.result = Unsupported(returned.args.method)
       /\ returned.events = <<>>

\* C12: when the answer that ends an invocation is a 204, on the first
\* attempt or on the retry, the invocation returns the success marker and
\* not a decoded body or a decoding failure.
C12_NoContentIsSuccessMarker ==
    Ended({"nocontent"}) =>
        returned.result = [kind |-> "success", success |-> TRUE]

\* a confirmed POST whose retry was answered 204 has returned the marker
C12_Witness ==
    /\ Retried({"nocontent"})
    /\ returned.args.method = "POST" /\ returned.args.permission_granted
    /\ returned.result.kind = "success"

\* C13: when the answer that ends an invocation is a 2xx with a JSON body,
\* the invocation returns that body unchanged: the body of the last answer
\* received.
C13_BodyPassedThrough ==
    Ended({"ok"}) =>
        returned.result = [kind |-> "body", body |-> LastAnswer.body]

\* a GET on device/abc, answered 401 and then 200 {'id': 'abc'}, has
\* returned {'id': 'abc'}
C13_Witness ==
    /\ Retried({"ok"})
    /\ returned.args.method = "GET" /\ returned.args.endpoint = "device/abc"
    /\ LastAnswer.body = "{'id': 'abc'}"
    /\ returned.result = [kind |-> "body", body |-> "{'id': 'abc'}"]

LoginEvents == {"lazy_ok", "lazy_fail", "refresh_ok", "refresh_fail"}
RefreshEvents == {"refresh_ok", "refresh_fail"}

\* in a sequence of events, a resource request that is not the first one
\* directly follows a successful refresh that directly follows a 401 answer
\* to the request before it
SecondSendOnlyAfter401(ev) ==
    \A i \in 1..Len(ev) :
        (ev[i] = "send" /\ \E j \in 1..(i - 1) : ev[j] = "send")
        => /\ i >= 4
           /\ ev[i - 1] = "refresh_ok"
           /\ ev[i - 2] = "unauthorized"
           /\ ev[i - 3] = "send"

\* C14: every invocation, running or returned, has made at most two
\* resource requests and at most one forced refresh, and a second request
\* only after a 401 answer to the first and after the refresh.
C14_AtMostOneRetry ==
    \A ev \in {returned.events} \cup {events[t] : t \in Tasks} :
        /\ Count(ev, {"send"}) <= 2
        /\ Count(ev, RefreshEvents) <= 1
        /\ SecondSendOnlyAfter401(ev)

\* an invocation answered 401 twice has ended after two requests and one
\* refresh
C14_Witness ==
    /\ Retried({"unauthorized"})
    /\ Sends = 2 /\ Refreshes = 1

\* C15: when the first attempt fails with another status than 401 or with a
\* connection failure, the invocation returns in that step after its one
\* request, without a refresh and with auth_token unchanged, and the value
\* is the error record "Unable to <lower-cased method> data from ThingsBoard"
\* with the failure detail as a string.
C15_FirstFailureIsErrorRecord ==
    [][\A t \in Tasks :
          (pc[t] = "await1" /\ pc'[t] = "idle"
           /\ returned'.resp # <<>>
           /\ returned'.resp[1].answer \in {"status", "connect"})
          => /\ auth_token' = auth_token
             /\ issued' = issued
             /\ Count(returned'.events, {"send"}) = 1
             /\ Count(returned'.events, RefreshEvents) = 0
             /\ returned'.result =
                  [kind |-> "error",
                   error |-> "Unable to " \o Lower(args[t].method)
                             \o " data from ThingsBoard",
                   details |-> Details(returned'.resp[1].answer)]
             /\ returned'.result.details # ""]_vars

\* a confirmed DELETE answered 500 has returned "Unable to delete data ..."
C15_Witness ==
    /\ HasReturned
    /\ returned.args.method = "DELETE" /\ returned.args.permission_granted
    /\ Len(returned.resp) = 1 /\ returned.resp[1].answer = "status"
    /\ returned.result.kind = "error"
    /\ returned.result.error = "Unable to delete data from ThingsBoard"
    /\ Sends = 1

\* C16: an invocation that starts while a token is held performs no login
\* in its first step and sends the held token; and when its first answer is
\* not a 401 it returns without any login of its own and without changing
\* auth_token.
C16_HeldTokenIsUsed ==
    [][/\ (calls' = calls + 1 /\ auth_token # NoToken)
          => /\ auth_token' = auth_token
             /\ issued' = issued
             /\ \A t \in Tasks :
                   (pc[t] = "idle" /\ pc'[t] = "await1")
                   => /\ events'[t] = <<"send">>
                      /\ req'[t].token = auth_token
       /\ \A t \in Tasks :
             (pc[t] = "await1" /\ pc'[t] = "idle"
              /\ args[t].token0 # NoToken
              /\ returned'.resp # <<>>
              /\ returned'.resp[1].answer # "unauthorized")
             => /\ auth_token' = auth_token
                /\ issued' = issued
                /\ Count(returned'.events, LoginEvents) = 0]_vars

\* an invocation begun with a token held has sent it, was answered 200 and
\* returned with the same token still held
C16_Witness ==
    /\ HasReturned
    /\ returned.args.token0 # NoToken
    /\ returned.events = <<"send", "ok">>
    /\ returned.req.token = returned.args.token0
    /\ auth_token = returned.args.token0

\* the request r is the call described by the arguments a
SameCall(r, a) ==
    /\ r.method = a.method
    /\ r.endpoint = a.endpoint
    /\ r.params = a.params
    /\ r.json = a.json_data

\* the method strings the resource operations pass to the dispatcher
WrapperMethods == {"GET", "POST", "DELETE", "get", "post", "delete"}

\* C17 (as claimed): passing the fields of a permission request that a
\* resource operation returned to execute_with_permission puts the
\* described call on the wire: same method, endpoint, params and body.
C17_ReplayReissues ==
    /\ \A t \in Tasks :
          (pc[t] # "idle" /\ args[t].op = "replay"
           /\ args[t].method \in WrapperMethods)
          => SameCall(req[t], args[t])
    /\ (HasReturned /\ returned.args.op = "replay"
        /\ returned.args.method \in WrapperMethods
        /\ returned.events # <<"lazy_fail">>)
       => /\ Sends >= 1
          /\ SameCall(returned.req, returned.args)

ConfirmedOps == {"execute_with_permission", "replay"}
C19_OnlyExecuteWithPermissionMutates ==
    /\ \A t \in Tasks :
          (pc[t] # "idle" /\ args[t].op \notin ConfirmedOps)
          => /\ ~args[t].permission_granted
             /\ req[t].method \notin Mutating
    /\ (HasReturned /\ returned.args.op \notin ConfirmedOps)
       => /\ ~returned.args.permission_granted
          /\ returned.req.method \notin Mutating

\* delete_alarm returned a permission request, and only the approved call
\* through execute_with_permission has put the DELETE on the wire
C19_Witness ==
    \E t \in Tasks :
        /\ returned.args.op = "delete_alarm"
        /\ returned.result.kind = "permission"
        /\ args[t].op \in ConfirmedOps
        /\ req[t].method = "DELETE"
        /\ req[t].endpoint = returned.result.endpoint

\* s contains sub
Contains(s, sub) ==
    \E i \in 1..(Len(s) - Len(sub) + 1) : SubSeq(s, i, i + Len(sub) - 1) = sub

\* the effect description claimed for a method
ClaimedEffect(m) ==
    IF m = "POST" THEN "create or add new data"
    ELSE IF m = "PUT" THEN "update existing data"
    ELSE IF m = "DELETE" THEN "permanently remove data"
    ELSE "perform a " \o m \o " operation"

\* C20: an unconfirmed non-GET invocation, supported method or not, is given
\* a permission request whose message states the effect claimed for its
\* method; an unconfirmed DELETE on device/abc is given method DELETE,
\* endpoint device/abc and a message containing "permanently remove data".
C20_EffectByMethod ==
    (HasReturned /\ Unconfirmed(returned.args)) =>
        /\ returned.result.kind = "permission"
        /\ Contains(returned.result.message,
                    "will " \o ClaimedEffect(returned.args.method) \o " in ")
        /\ (returned.args.method = "DELETE"
            /\ returned.args.endpoint = "device/abc")
           => /\ returned.result.method = "DELETE"
              /\ returned.result.endpoint = "device/abc"
              /\ Contains(returned.result.message, "permanently remove data")

\* an unconfirmed DELETE on device/abc was given its permission request
C20_Witness ==
    /\ HasReturned /\ Unconfirmed(returned.args)
    /\ returned.args.method = "DELETE"
    /\ returned.args.endpoint = "device/abc"
    /\ returned.result.kind = "permission"
    /\ Contains(returned.result.message, "permanently remove data")

\* an unconfirmed PATCH was given a permission request, not an error
C20_WitnessUnsupported ==
    /\ HasReturned /\ Unconfirmed(returned.args)
    /\ returned.args.method = "PATCH"
    /\ returned.result.kind = "permission"

\* C21 (as claimed): every invocation ends by returning a decoded body, the
\* success marker, a permission request or an error record, and every error
\* record carries a message and the failure detail as a string.
C21_FourShapesWithDetail ==
    HasReturned =>
        /\ returned.result.kind \in {"body", "success", "permission", "error"}
        /\ returned.result.kind = "error" =>
              /\ "error" \in DOMAIN returned.result
              /\ "details" \in DOMAIN returned.result

\* C22: execute_with_permission is the dispatcher called with
\* permission_granted=True and nothing else: its invocations are never given
\* a permission request, a POST, PUT or DELETE of it whose lazy login did not
\* fail is put on the wire as passed, and this does not depend on what was
\* returned before, not even on a permission request having been returned.
C22_ExecuteIsConfirmedDispatch ==
    /\ \A t \in Tasks :
          (pc[t] # "idle" /\ args[t].op = "execute_with_permission")
          => /\ args[t].permission_granted
             /\ req[t] = WireRequest(args[t].endpoint, args[t].method,
                                     args[t].params, args[t].json_data,
                                     req[t].token)
    /\ (HasReturned /\ returned.args.op = "execute_with_permission")
       => /\ returned.args.permission_granted
          /\ returned.result.kind # "permission"
          /\ (returned.args.method \in Mutating \cup {"GET"}
              /\ returned.events # <<"lazy_fail">>)
             => Sends >= 1

\* a DELETE of execute_with_permission is on the wire although no invocation
\* has returned yet, hence no permission request was ever given
C22_Witness ==
    \E t \in Tasks :
        /\ ~HasReturned
        /\ args[t].op = "execute_with_permission"
        /\ args[t].method = "DELETE"
        /\ req[t].method = "DELETE"

\* C23: in every state of every interleaving one token value is held at
\* most, and it is the token of the login that succeeded last: before any
\* login has succeeded none is held, and afterwards auth_token is the token
\* handed out last, also after two invocations have both refreshed.
C23_LastWriterWins ==
    /\ issued = 0 => auth_token = NoToken
    /\ issued > 0 => auth_token = issued

\* two invocations were both answered 401 and have both refreshed: each
\* retries with its own token, and the token of the later refresh is held
C23_Witness ==
    \E t, u \in Tasks :
        /\ t # u
        /\ pc[t] = "await2" /\ pc[u] = "await2"
        /\ req[t].token < req[u].token
        /\ auth_token = req[u].token

\* task t is retrying after a 401 to a token that another invocation had
\* replaced by then: the token it held at its start is not the one that was
\* held when it refreshed (its own token is the next one handed out)
StaleRetry(t) ==
    /\ pc[t] = "await2"
    /\ args[t].token0 # NoToken
    /\ args[t].token0 # req[t].token - 1

\* C24 (as claimed): an invocation whose request carries a token that was
\* replaced meanwhile and is answered 401 refreshes once and retries once
\* with the token of its own refresh, and returns what the retry gives: a
\* value, never an exception.
C24_StaleReadCostsOneRetry ==
    [][\A t \in Tasks :
          /\ (/\ pc[t] = "await1" /\ req[t].token # auth_token
              /\ pc'[t] # "await1"
              /\ \/ pc'[t] = "await2"
                 \/ /\ returned'.resp # <<>>
                    /\ returned'.resp[1].answer = "unauthorized")
             => /\ pc'[t] = "await2"
                /\ issued' = issued + 1
                /\ req'[t].token = issued'
                /\ auth_token' = issued'
                /\ Count(events'[t], RefreshEvents) = 1
                /\ Count(events'[t], {"send"}) = 2
          /\ (StaleRetry(t) /\ pc'[t] = "idle")
             => /\ returned'.result.kind \in {"body", "success", "error"}
                /\ Count(returned'.events, {"send"}) = 2
                /\ Count(returned'.events, RefreshEvents) = 1]_vars

\* the step performs a login exchange that fails: at startup, at the lazy
\* login or at the refresh
FailedLoginStep ==
    \/ phase = "load" /\ phase' = "exited"
    \/ /\ calls' = calls + 1 /\ pc' = pc
       /\ returned'.events = <<"lazy_fail">>
    \/ \E t \in Tasks :
          /\ pc[t] = "await1" /\ pc'[t] = "idle"
          /\ returned'.events # <<>>
          /\ returned'.events[Len(returned'.events)] = "refresh_fail"

\* the step performs a login exchange: it is handed a new token, or the
\* login fails
LoginStep == issued' # issued \/ FailedLoginStep

\* the step starts an invocation while no token is held
StartsWithoutToken == calls' = calls + 1 /\ auth_token = NoToken

\* the step handles the 401 answer to the first request of an invocation
Handles401 ==
    \E t \in Tasks :
        /\ pc[t] = "await1"
        /\ \/ pc'[t] = "await2" /\ resp'[t] = <<Answer("unauthorized", None)>>
           \/ pc'[t] = "idle" /\ returned'.resp = <<Answer("unauthorized", None)>>

\* the step is the login of __main__, before the server serves
StartupLogin == phase = "load" /\ calls' = calls /\ phase' # "load"

\* C25 (as claimed): every login exchange is performed by an invocation
\* that found no token held or that handles the 401 answer to its first
\* request.
C25_LoginOnlyOnNeed ==
    [][LoginStep => (StartsWithoutToken \/ Handles401)]_vars

\* C25 (amended): every login exchange is the one __main__ performs before
\* the server serves, or is performed by an invocation that found no token
\* held, or by one that handles the 401 answer to its first request.
C25_LoginAtStartupOrOnNeed ==
    [][LoginStep => (StartupLogin \/ StartsWithoutToken \/ Handles401)]_vars

\* the server serves with the token of the startup login and no invocation
\* has started yet
C25_Witness ==
    /\ phase = "serving" /\ calls = 0
    /\ auth_token # NoToken /\ issued = 1

\* the network calls of an invocation, as its events record them
NetworkEvents == LoginEvents \cup {"send"}

\* C26 (as claimed): every network call of an invocation, the login
\* exchange included, is a suspension point: the step that starts one ends
\* there, so no step of a running invocation starts two of them, and other
\* invocations can run between a login exchange and the request after it.
C26_LoginIsSuspensionPoint ==
    [][\A t \in Tasks :
          pc'[t] # "idle" =>
              Count(events'[t], NetworkEvents)
                  <= Count(events[t], NetworkEvents) + 1]_vars

\* the invocation that returned last had refreshed the token
ReturnedRefreshed == Count(returned.events, {"refresh_ok"}) = 1

\* C27 (as claimed): the refresh after a 401 replaces auth_token in the step
\* that sends the retry; when that invocation ends, however it ends,
\* auth_token is the token of its refresh; and the invocation started next
\* sends that token in its first request without a login.
C27_RefreshedTokenPersists ==
    [][\A t \in Tasks :
          /\ (pc[t] = "await1" /\ pc'[t] = "await2")
             => /\ auth_token' # auth_token
                /\ auth_token' = req'[t].token
          /\ (pc[t] = "await2" /\ pc'[t] = "idle")
             => auth_token' = req[t].token
          /\ (calls' = calls + 1 /\ ReturnedRefreshed
              /\ pc[t] = "idle" /\ pc'[t] = "await1")
             => /\ events'[t] = <<"send">>
                /\ issued' = issued
                /\ req'[t].token = returned.req.token]_vars

\* C27 (amended): the refresh after a 401 replaces auth_token in the step
\* that sends the retry; when that invocation ends, however it ends,
\* auth_token is the token of its refresh or the token of a refresh another
\* invocation made later; and the invocation started next sends the token
\* held then in its first request without a login.
C27_RefreshedOrNewerTokenPersists ==
    [][\A t \in Tasks :
          /\ (pc[t] = "await1" /\ pc'[t] = "await2")
             => /\ auth_token' # auth_token
                /\ auth_token' = req'[t].token
          /\ (pc[t] = "await2" /\ pc'[t] = "idle")
             => /\ auth_token' >= req[t].token
                /\ auth_token' = auth_token
          /\ (calls' = calls + 1 /\ ReturnedRefreshed
              /\ pc[t] = "idle" /\ pc'[t] = "await1")
             => /\ events'[t] = <<"send">>
                /\ issued' = issued
                /\ req'[t].token = auth_token
                /\ auth_token >= returned.req.token]_vars

\* an invocation refreshed the token and ended with the exception of its
\* failed retry; the invocation started after it has sent the refreshed
\* token without a login
C27_Witness ==
    \E t \in Tasks :
        /\ ReturnedRefreshed
        /\ returned.result.kind = "raised"
        /\ pc[t] = "await1"
        /\ events[t] = <<"send">>
        /\ req[t].token = returned.req.token
        /\ auth_token = returned.req.token
        /\ \A u \in Tasks \ {t} : pc[u] = "idle"

\* C28: no step sets auth_token back to None; a login exchange that fails,
\* at startup, lazily or at a refresh, leaves auth_token as it was; and
\* auth_token changes only to the token a successful login has just been
\* handed, which is newer than the one held before.
C28_TokenNeverCleared ==
    [][/\ auth_token # NoToken => auth_token' # NoToken
       /\ FailedLoginStep => auth_token' = auth_token
       /\ auth_token' # auth_token
          => /\ issued' = issued + 1
             /\ auth_token' = issued'
             /\ auth_token' > auth_token]_vars

\* the refresh of an invocation has failed and the token it had sent is
\* still held
C28_Witness ==
    /\ HasReturned
    /\ returned.events # <<>>
    /\ returned.events[Len(returned.events)] = "refresh_fail"
    /\ auth_token # NoToken
    /\ auth_token = returned.req.token

\* C29: when every request on the wire is answered in the end, every
\* invocation ends: a running task becomes idle again; and no invocation,
\* running or returned, has made more than two login exchanges or more than
\* two resource requests, also when every answer is a 401.
C29_EveryInvocationEnds ==
    /\ [](\A ev \in {returned.events} \cup {events[t] : t \in Tasks} :
             /\ Count(ev, LoginEvents) <= 2
             /\ Count(ev, {"send"}) <= 2)
    /\ \A t \in Tasks : (pc[t] # "idle") ~> (pc[t] = "idle")

\* an invocation that had to log in first and was answered 401 twice has
\* ended, after two login exchanges and two requests
C29_Witness ==
    /\ Retried({"unauthorized"})
    /\ Logins = 2 /\ Sends = 2
    /\ \A t \in Tasks : pc[t] = "idle"

\* the dicts a read can return without an "error" key
FetchedDicts == Bodies \cup {"{'success': True}"}

\* C30 (as claimed): update_device ends in one of two ways: with the error
\* record its read returned, and then no permission request is made; or with
\* the permission request for a POST of the fetched entity with the given
\* name written over it; and it never puts a POST, PUT or DELETE on the wire.
C30_UpdateReadsThenAsks ==
    [][\A t \in Tasks :
          /\ (pc[t] # "idle" /\ args[t].op \in UpdateOps)
             => req[t].method \notin Mutating
          /\ (pc[t] # "idle" /\ args[t].op \in UpdateOps /\ pc'[t] = "idle")
             => \/ /\ returned'.result.kind = "error"
                   /\ returned'.args.method = "GET"
                   /\ Count(returned'.events, {"send"}) >= 1
                \/ /\ returned'.result.kind = "permission"
                   /\ returned'.result.method = "POST"
                   /\ returned'.result.endpoint = "device"
                   /\ returned'.result.json_data
                        \in {Updated(d, args[t].name) : d \in FetchedDicts}
                   /\ returned'.req = NoReq]_vars
====
